---- MODULE Spec2Model ----
(***************************************************************************)
(* milkdud: the torrent builder of src/torrent.go.                         *)
(*                                                                         *)
(* Package torrent (torrent.go:126-439): New, AddFile, buildFromPathList,  *)
(* Create, writeFiles (allocator, reader workers, worker pool, result      *)
(* collector), generatePieces, and the io.Pipe between them.               *)
(* Package main (torrent.go:1-124): the map-based builder the command      *)
(* line uses (createTorrentFile, AddFile, Create).                         *)
(*                                                                         *)
(* Conventions.  A path is a sequence of segments; "/" as first segment    *)
(* marks an absolute path.  File content is identified by position: the    *)
(* extent <<p, lo, hi>> stands for bytes [lo, hi) of the file at absolute  *)
(* path p, so a byte stream is a sequence of extents, adjacent extents of  *)
(* one file being merged.  SHA-1 is modelled as an injective tag over the  *)
(* hashed extents.                                                         *)
(***************************************************************************)
EXTENDS Integers, Sequences, FiniteSets, TLC

(***************************************************************************)
(* Bounds of the model.                                                    *)
(***************************************************************************)
MaxAdds == 2
MaxWorkers == 2

(***************************************************************************)
(* Program and library constants.                                          *)
(***************************************************************************)
minimumPieceLength == 16384
targetPieceCountMax == 2048
CopyBufSize == 32768
DirSize == 4096

(***************************************************************************)
(* Paths.                                                                  *)
(***************************************************************************)
Root == <<"/", "lib">>
PathA == <<"/", "lib", "a">>
PathB == <<"/", "lib", "b">>
PathX == <<"/", "x">>
PathRel == <<"a">>
AddPaths == {PathA, PathB, PathX, Root, PathRel}
AddSizes == {-1, 10000}

\* The AddFile calls made: every path with every size, and the path of a
\* good file with a size of 0 and with a size far above what stat reports.
AddArgs ==
    (AddPaths \X AddSizes) \cup {<<PathA, 0>>, <<PathA, 40000000>>}

IsAbs(p) == Len(p) > 0 /\ p[1] = "/"

Min(a, b) == IF a < b THEN a ELSE b

RECURSIVE CommonPrefixLen(_, _)
CommonPrefixLen(p, q) ==
    IF p = <<>> \/ q = <<>> \/ p[1] # q[1] THEN 0
    ELSE 1 + CommonPrefixLen(Tail(p), Tail(q))

\* filepath.Rel(base, targ): an error when exactly one of the two is
\* absolute; else ".." for every segment of base outside the common prefix,
\* followed by the rest of targ ("." when nothing is left).
RelErr(base, targ) == IsAbs(base) # IsAbs(targ)

Rel(base, targ) ==
    LET k == CommonPrefixLen(base, targ)
        ups == [i \in 1..(Len(base) - k) |-> ".."]
        rest == SubSeq(targ, k + 1, Len(targ))
    IN IF ups \o rest = <<>> THEN <<".">> ELSE ups \o rest

\* filepath.Join(root, rel): concatenation followed by Clean.
RECURSIVE JoinPath(_, _)
JoinPath(base, rel) ==
    IF rel = <<>> THEN base
    ELSE IF rel[1] = ".." THEN
        JoinPath(IF Len(base) > 1 THEN SubSeq(base, 1, Len(base) - 1) ELSE base,
                 Tail(rel))
    ELSE IF rel[1] = "." THEN JoinPath(base, Tail(rel))
    ELSE JoinPath(Append(base, rel[1]), Tail(rel))

\* Byte order of the segments in use ('.' < '/' < letters).
SegRank(s) ==
    CASE s = "." -> 1
      [] s = ".." -> 2
      [] s = "/" -> 3
      [] s = "a" -> 4
      [] s = "b" -> 5
      [] s = "lib" -> 6
      [] s = "x" -> 7
      [] OTHER -> 8

\* strings.Join(l, "/") < strings.Join(r, "/")
RECURSIVE PathLess(_, _)
PathLess(l, r) ==
    IF r = <<>> THEN FALSE
    ELSE IF l = <<>> THEN TRUE
    ELSE IF l[1] = r[1] THEN PathLess(Tail(l), Tail(r))
    ELSE SegRank(l[1]) < SegRank(r[1])

\* Insertion sort by less on Path: the result of slices.Sort (sort.Sort) for
\* a list whose entries of equal path are equal.
RECURSIVE InsertSorted(_, _)
InsertSorted(s, e) ==
    IF s = <<>> THEN <<e>>
    ELSE IF PathLess(e.Path, s[1].Path) THEN <<e>> \o s
    ELSE <<s[1]>> \o InsertSorted(Tail(s), e)

RECURSIVE SortFiles(_)
SortFiles(s) ==
    IF s = <<>> THEN <<>>
    ELSE InsertSorted(SortFiles(SubSeq(s, 1, Len(s) - 1)), s[Len(s)])

(***************************************************************************)
(* metainfo.ChoosePieceLength: start at 16 KiB and double while the piece  *)
(* count is at least targetPieceCountMax.  Go's integer division truncates *)
(* towards zero.                                                           *)
(***************************************************************************)
GoDiv(a, b) == IF a >= 0 THEN a \div b ELSE -((-a) \div b)

RECURSIVE ChooseLoop(_, _)
ChooseLoop(pieceLength, pcs) ==
    IF pcs >= targetPieceCountMax THEN ChooseLoop(pieceLength * 2, pcs \div 2)
    ELSE pieceLength

\* A piece length that is the total shared out over the target count.
ChoosePieceLengthByCount(totalLength) == GoDiv(totalLength, targetPieceCountMax)

ChoosePieceLength(totalLength) ==
    ChooseLoop(minimumPieceLength, GoDiv(totalLength, minimumPieceLength))

(***************************************************************************)
(* The file system.  A disk entry has a kind, the size os.Stat reports and *)
(* the number of bytes a reader gets before end of file:                   *)
(*   ok         stat and open succeed, avail = size                        *)
(*   short      truncated after the stat: avail < size                     *)
(*   unreadable stat succeeds, open fails (permission denied)              *)
(*   absent     stat and open fail with "does not exist"                   *)
(*   statfail   stat fails with another error, open fails                  *)
(*   dir        a directory: open succeeds, every read fails               *)
(***************************************************************************)
DiskEntry(k, sz, av) == [kind |-> k, size |-> sz, avail |-> av]

FaultsOf(sz, shortAvail) ==
    { DiskEntry("short", sz, shortAvail), DiskEntry("unreadable", sz, 0),
      DiskEntry("absent", 0, 0), DiskEntry("statfail", 0, 0) }

GoodDisk ==
    (PathA :> DiskEntry("ok", 10000, 10000)) @@
    (PathB :> DiskEntry("ok", 40000, 40000)) @@
    (PathX :> DiskEntry("ok", 6384, 6384)) @@
    (Root :> DiskEntry("dir", DirSize, 0))

\* Every input file healthy, or exactly one of a, b faulty.
DiskConfigs ==
    {GoodDisk}
    \cup { [GoodDisk EXCEPT ![PathA] = e] : e \in FaultsOf(10000, 4000) }
    \cup { [GoodDisk EXCEPT ![PathB] = e] : e \in FaultsOf(40000, 36000) }

StatOk(d) == d.kind \in {"ok", "short", "unreadable", "dir"}
StatNotExist(d) == d.kind = "absent"
OpenOk(d) == d.kind \in {"ok", "short", "dir"}

(***************************************************************************)
(* Byte streams as extents.                                                *)
(***************************************************************************)
ExtLen(e) == e[3] - e[2]

AppendExt(s, e) ==
    IF ExtLen(e) = 0 THEN s
    ELSE IF s # <<>> /\ s[Len(s)][1] = e[1] /\ s[Len(s)][3] = e[2]
         THEN [s EXCEPT ![Len(s)] = <<e[1], s[Len(s)][2], e[3]>>]
         ELSE Append(s, e)

RECURSIVE StreamLen(_)
StreamLen(s) == IF s = <<>> THEN 0 ELSE ExtLen(s[1]) + StreamLen(Tail(s))

\* h.Sum(b) of a fresh sha1 fed with the extents acc: a 20-byte digest,
\* injective in what was hashed.
Sha1(acc) == [sha1 |-> acc]

\* The first n bytes of a stream, and what follows them.
RECURSIVE TakeBytes(_, _)
TakeBytes(s, n) ==
    IF n <= 0 \/ s = <<>> THEN <<>>
    ELSE IF ExtLen(s[1]) <= n
    THEN <<s[1]>> \o TakeBytes(Tail(s), n - ExtLen(s[1]))
    ELSE << <<s[1][1], s[1][2], s[1][2] + n>> >>

RECURSIVE DropBytes(_, _)
DropBytes(s, n) ==
    IF n <= 0 \/ s = <<>> THEN s
    ELSE IF ExtLen(s[1]) <= n
    THEN DropBytes(Tail(s), n - ExtLen(s[1]))
    ELSE << <<s[1][1], s[1][2] + n, s[1][3]>> >> \o Tail(s)

\* Bytes [from, to) of a stream.
Slice(s, from, to) == TakeBytes(DropBytes(s, from), to - from)

(***************************************************************************)
(* The output file: whether it exists and its content, a sequence of       *)
(* encoded items.                                                          *)
(***************************************************************************)
NoOutFile == [exists |-> FALSE, data |-> <<>>]
OldOutFile == [exists |-> TRUE,
               data |-> <<"old1", "old2", "old3", "old4", "old5", "old6">>]

\* Writing data at offset 0 of a file opened without O_TRUNC.
Overwrite(old, data) ==
    data \o SubSeq(old, Len(data) + 1, Len(old))

(***************************************************************************)
(* State.                                                                  *)
(***************************************************************************)
VARIABLES
    tf,        \* the torrentFile of package torrent
    disk,      \* the input files on disk
    outFile,   \* the file at the output path
    numCPU,    \* runtime.NumCPU()
    crashed,   \* the process died of a panic
    last,      \* the last AddFile call and how it ended
    adds,      \* number of AddFile calls so far
    create,    \* Create: its position and its return value
    info,      \* the metainfo.Info Create builds
    alloc,     \* writeFiles: the allocator goroutine and the channel c
    wk,        \* writeFiles: the reader workers
    pool,      \* writeFiles: createWorkerPool, the WaitGroup, results, done
    pipe,      \* the io.Pipe between writeFiles and generatePieces
    hasher,    \* generatePieces: bytes in the current piece, digests so far
    stream,    \* history: the bytes generatePieces has read, in order
    mtf,       \* the torrentFile of package main
    mcreate,   \* package main's Create: its position and its return value
    minfo,     \* the metainfo.Info package main's Create builds
    music,     \* the files of each directory under the scan path
    flags,     \* the command line: -r, -i, -t and the albums of a -b database
    crawl,     \* main's crawler goroutine and the channel scanResults
    scan,      \* main's result loop: stats, albums, skippedFolders, fd
    fncall     \* a function called on its own: its arguments and its result

vars == <<tf, disk, outFile, numCPU, crashed, last, adds, create, info, alloc,
          wk, pool, pipe, hasher, stream, mtf, mcreate, minfo, music, flags,
          crawl, scan, fncall>>

scanVars == <<music, flags, crawl, scan>>

mainVars == <<mtf, mcreate, minfo>>

pipelineVars == <<alloc, wk, pool, pipe, hasher, stream>>

NoFnCall == [fn |-> "none", in |-> <<>>, out |-> <<>>]

NoCall == [op |-> "none", path |-> <<>>, size |-> 0, result |-> "none"]

NoInfo == [Name |-> "", PieceLength |-> 0, Private |-> FALSE, Length |-> 0,
           Files |-> <<>>, Pieces |-> <<>>]

NoWorker == [pc |-> "unborn", fi |-> 0, pos |-> 0, open |-> 0,
             err |-> <<>>]

Ret(k, at, path) == [kind |-> k, at |-> at, path |-> path]

\* The comments, announce lists and clock readings a builder is made with.
Comments == {"comment", "other comment"}
AnnounceLists == { <<"tracker1">>, <<"tracker1", "tracker2">>,
                   <<"tracker1", "tracker1">> }
Times == {1, 2}

\* New(root, comment, announce, logOutput) at time.Now().Unix() = now: one
\* tier for each announce URL.
New(root, comment, announce, now) ==
    [ totalFileSizeBytes |-> 0,
      root |-> root,
      paths |-> <<>>,
      files |-> <<>>,
      mi |-> [ AnnounceList |-> [i \in 1..Len(announce) |-> <<announce[i]>>],
               Comment |-> comment,
               CreatedBy |-> "github.com/concretelabs/milkdud",
               CreationDate |-> now,
               InfoBytes |-> <<>> ] ]

\* createTorrentFile(rootPath, announce)
createTorrentFile(rootPath) ==
    [ totalFileSizeBytes |-> 0,
      rootPath |-> rootPath,
      paths |-> <<>>,
      announce |-> <<"tracker1">> ]

(***************************************************************************)
(* The command line (src/unnamed/part_000): the music library under the    *)
(* scan path.  File names sort before directory names, so WalkDir visits   *)
(* the files of a directory before it enters its subdirectories.           *)
(***************************************************************************)
ScanPath == <<"/", "music">>
DirA == <<"/", "music", "a">>
DirAB == <<"/", "music", "a", "b">>
DirC == <<"/", "music", "c">>
Dirs == {ScanPath, DirA, DirAB, DirC}

\* The directories right below dir, in lexical order.
SubDirs(dir) ==
    IF dir = ScanPath THEN <<DirA, DirC>>
    ELSE IF dir = DirA THEN <<DirAB>>
    ELSE <<>>

\* A file: its name, its size and, for what detectAccuripInFile would find
\* in it, a TOC ID, "" for none, or "unreadable" when os.ReadFile fails.
File(n, sz, toc) == [Name |-> n, Size |-> sz, Toc |-> toc]

FolderContents ==
    { <<>>,
      << File("01.flac", 10000, ""), File("02.log", 100, "id1") >>,
      << File("01.flac", 10000, ""), File("02.log", 100, ""),
         File("04.jpg", 500, "") >>,
      << File("01.flac", 20000, ""), File("03.accurip", 200, "id2"),
         File("05.jpeg", 600, ""), File("06.mp3", 7000, "") >>,
      << File("03.accurip", 200, ""), File("07.wav", 9000, "id1"),
         File("08.FLAC", 10000, ""), File("README", 50, "") >>,
      << File("01.flac", 10000, ""), File("02.log", 100, "unreadable") >> }

\* The album paths a beets database hands out; none without -b.
BeetsAlbums == { <<>>, <<ScanPath, DirC>>, <<DirAB, DirA>> }

\* strings.Replace(path.Ext(name), ".", "", -1): what follows the last dot
\* of the name, "" for a name without a dot.
Ext(name) ==
    CASE name = "01.flac" -> "flac"
      [] name = "02.log" -> "log"
      [] name = "03.accurip" -> "accurip"
      [] name = "04.jpg" -> "jpg"
      [] name = "05.jpeg" -> "jpeg"
      [] name = "06.mp3" -> "mp3"
      [] name = "07.wav" -> "wav"
      [] name = "08.FLAC" -> "FLAC"
      [] OTHER -> ""

NoFolder == [Path |-> <<>>, HasAccurip |-> FALSE, TocID |-> "",
             Files |-> <<>>, FileCnt |-> 0, FlacCnt |-> 0, TotalBytes |-> 0]

NoResult == [folder |-> NoFolder, err |-> "none"]

NoStats == [FolderCnt |-> 0, AccuripFolderCnt |-> 0, FoldersScanned |-> 0,
            TotalFileSizeBytes |-> 0, TotalFiles |-> 0, TotalFlacFiles |-> 0,
            AverageAlbumSizeBytes |-> 0, Errors |-> 0]

NoScan == [pc |-> "off", stats |-> NoStats, albums |-> <<>>,
           skippedFolders |-> <<>>, errors |-> <<>>, fd |-> <<>>]

\* What is the same at every start: nothing added, nothing running.
InitRest ==
    /\ fncall = NoFnCall
    /\ crashed = FALSE
    /\ last = NoCall
    /\ adds = 0
    /\ create = [pc |-> "idle", ret |-> Ret("none", "", <<>>)]
    /\ info = NoInfo
    /\ alloc = [idx |-> 1, closed |-> FALSE]
    /\ wk = [w \in 1..numCPU |-> NoWorker]
    /\ pool = [pc |-> "idle", i |-> 0, wg |-> 0, resultsClosed |-> FALSE,
               res |-> "idle", results |-> 0]
    /\ pipe = [owner |-> 0, buf |-> <<<<>>, 0, 0>>, closed |-> FALSE,
               err |-> "nil"]
    /\ hasher = [written |-> 0, acc |-> <<>>, b |-> <<>>]
    /\ stream = <<>>
    /\ mtf = createTorrentFile(Root)
    /\ mcreate = [pc |-> "idle", ret |-> Ret("none", "", <<>>)]
    /\ minfo = NoInfo

\* The library used on its own: no command line, nothing scanned.
InitNoScan ==
    /\ music = [d \in Dirs |-> <<>>]
    /\ flags = [ignoreRipLogs |-> FALSE, importArt |-> FALSE,
                createTorrent |-> FALSE, beets |-> <<>>]
    /\ crawl = [pc |-> "off", todo |-> <<>>, res |-> NoResult]
    /\ scan = NoScan

\* The output path holds no file, or, for the run on readable files with
\* one worker, an older file as well.
OutFilesFor(d, n) ==
    IF d = GoodDisk /\ n = 1 THEN {NoOutFile, OldOutFile} ELSE {NoOutFile}

Init ==
    /\ tf = New(Root, "comment", <<"tracker1">>, 1)
    /\ disk \in DiskConfigs
    /\ numCPU \in 1..MaxWorkers
    /\ outFile \in OutFilesFor(disk, numCPU)
    /\ InitRest
    /\ InitNoScan

\* Builders made with any comment, announce list and creation time, over
\* readable files and one worker.
InitMeta ==
    /\ \E c \in Comments, a \in AnnounceLists, t \in Times :
          tf = New(Root, c, a, t)
    /\ disk = GoodDisk
    /\ outFile = NoOutFile
    /\ numCPU = 1
    /\ InitRest
    /\ InitNoScan

MapPut(m, k, v) == [x \in (DOMAIN m) \cup {k} |-> IF x = k THEN v ELSE m[x]]

\* AddFile(path, size) of package torrent.
AddFileResult(t, path, size) ==
    LET relativePath == Rel(t.root, path)
    IN [t EXCEPT
          !.paths = MapPut(t.paths, relativePath, size),
          !.totalFileSizeBytes = t.totalFileSizeBytes + size,
          !.files = Append(t.files, [Length |-> size, Path |-> <<path>>])]

AddFile(path, size) ==
    /\ ~crashed
    /\ create.pc = "idle"
    /\ adds < MaxAdds
    /\ adds' = adds + 1
    /\ IF RelErr(tf.root, path)
       THEN /\ crashed' = TRUE
            /\ last' = [op |-> "AddFile", path |-> path, size |-> size,
                        result |-> "panic"]
            /\ tf' = tf
       ELSE /\ tf' = AddFileResult(tf, path, size)
            /\ last' = [op |-> "AddFile", path |-> path, size |-> size,
                        result |-> "ok"]
            /\ crashed' = crashed
    /\ UNCHANGED <<disk, outFile, numCPU, create, info, pipelineVars, mainVars, scanVars, fncall>>

(***************************************************************************)
(* buildFromPathList: the result is the info, an error ("nil" for none)    *)
(* with the path it names, and whether fi.Size() was called on a nil fi.   *)
(***************************************************************************)
BuildResult(i, e, p, pan) == [info |-> i, err |-> e, path |-> p, panic |-> pan]

RECURSIVE BuildLoop(_, _, _, _)
BuildLoop(t, inf, d, i) ==
    IF i > Len(t.files) THEN BuildResult(inf, "nil", <<>>, FALSE)
    ELSE LET file == t.files[i] IN
      IF Len(file.Path) = 0 \/ Len(file.Path) > 1
      THEN BuildLoop(t, inf, d, i + 1)
      ELSE LET path == file.Path[1]
               st == d[path]
           IN IF StatNotExist(st) \/ Len(path) = 0
              THEN BuildResult(inf, "path doesn't exist", path, FALSE)
              ELSE IF path = t.root
              THEN IF StatOk(st)
                   THEN BuildResult([inf EXCEPT !.Length = st.size], "nil",
                                    <<>>, FALSE)
                   ELSE BuildResult(inf, "nil", path, TRUE)
              ELSE IF RelErr(t.root, path)
              THEN BuildResult(inf, "error getting relative path", path, FALSE)
              ELSE IF ~StatOk(st)
              THEN BuildResult(inf, "nil", path, TRUE)
              ELSE BuildLoop(t,
                      [inf EXCEPT !.Files =
                          Append(@, [Path |-> Rel(t.root, path),
                                     Length |-> st.size])],
                      d, i + 1)

buildFromPathList(t, inf, d) ==
    BuildLoop(t, [inf EXCEPT !.Name = "music", !.Files = <<>>], d, 1)

\* info.UpvertedFiles(): a files list is never empty for writeFiles.
UpvertedFiles(inf) ==
    IF Len(inf.Files) = 0
    THEN << [Length |-> inf.Length, Path |-> <<>>] >>
    ELSE inf.Files

\* The path a worker opens for the file fi.
OpenPath(t, fi) == JoinPath(t.root, fi.Path)

\* A Create that leaves the flag unset.
privateUnset == FALSE

\* private := true
private == TRUE

(***************************************************************************)
(* Create, first part (torrent.go:237-273): choose the piece length, build *)
(* and sort the files list, make the pipe and start writeFiles.            *)
(***************************************************************************)
CreateBegin ==
    /\ ~crashed
    /\ create.pc = "idle"
    /\ LET pieceLength == ChoosePieceLength(tf.totalFileSizeBytes)
           built == buildFromPathList(tf,
                       [NoInfo EXCEPT !.Private = private,
                                      !.PieceLength = pieceLength], disk)
           sorted == [built.info EXCEPT !.Files = SortFiles(@)]
       IN IF built.panic
          THEN /\ crashed' = TRUE
               /\ create' = [pc |-> "returned",
                             ret |-> Ret("panic", "build", built.path)]
               /\ UNCHANGED <<info, alloc, pool>>
          ELSE IF built.err # "nil"
          THEN /\ create' = [pc |-> "returned",
                             ret |-> Ret("error", "build", built.path)]
               /\ UNCHANGED <<crashed, info, alloc, pool>>
          ELSE IF sorted.PieceLength = 0
          THEN /\ create' = [pc |-> "returned",
                             ret |-> Ret("error", "piecelength", <<>>)]
               /\ UNCHANGED <<crashed, info, alloc, pool>>
          ELSE /\ info' = sorted
               /\ create' = [create EXCEPT !.pc = "hashing"]
               /\ alloc' = [idx |-> 1, closed |-> FALSE]
               /\ pool' = [pool EXCEPT !.pc = "spawn", !.res = "ranging"]
               /\ UNCHANGED crashed
    /\ UNCHANGED <<tf, disk, outFile, numCPU, last, adds, wk, pipe, hasher,
                   stream, mainVars, scanVars, fncall>>

(***************************************************************************)
(* writeFiles (torrent.go:344-422).                                        *)
(***************************************************************************)
files == UpvertedFiles(info)

Running == create.pc = "hashing" /\ ~crashed

\* The allocator's c <- fi meeting a worker's range c (c is unbuffered).
Dispatch(w) ==
    /\ Running
    /\ wk[w].pc = "recv"
    /\ ~alloc.closed
    /\ alloc.idx <= Len(files)
    /\ wk' = [wk EXCEPT ![w] = [@ EXCEPT !.pc = "open", !.fi = alloc.idx,
                                         !.pos = 0]]
    /\ alloc' = [alloc EXCEPT !.idx = @ + 1]
    /\ UNCHANGED <<tf, disk, outFile, numCPU, crashed, last, adds, create,
                   info, pool, pipe, hasher, stream, mainVars, scanVars, fncall>>

\* The allocator's close(c) after the last file.
AllocClose ==
    /\ Running
    /\ pool.pc # "idle"
    /\ ~alloc.closed
    /\ alloc.idx > Len(files)
    /\ alloc' = [alloc EXCEPT !.closed = TRUE]
    /\ UNCHANGED <<tf, disk, outFile, numCPU, crashed, last, adds, create,
                   info, wk, pool, pipe, hasher, stream, mainVars, scanVars, fncall>>

\* A worker that returns without telling the WaitGroup.
WgDoneSkipped(wg) == wg

\* wg.Done()
WgDone(wg) == wg - 1

\* A worker's range c ends: wg.Done() and return nil.
WorkerExit(w) ==
    /\ Running
    /\ wk[w].pc = "recv"
    /\ alloc.closed
    /\ wk' = [wk EXCEPT ![w] = [@ EXCEPT !.pc = "exited"]]
    /\ pool' = [pool EXCEPT !.wg = WgDone(@)]
    /\ UNCHANGED <<tf, disk, outFile, numCPU, crashed, last, adds, create,
                   info, alloc, pipe, hasher, stream, mainVars, scanVars, fncall>>

\* os.Open(p): on failure the worker returns the error, without wg.Done().
WorkerOpen(w) ==
    /\ Running
    /\ wk[w].pc = "open"
    /\ LET p == OpenPath(tf, files[wk[w].fi]) IN
        IF OpenOk(disk[p])
        THEN wk' = [wk EXCEPT ![w] = [@ EXCEPT !.pc = "copy", !.open = @ + 1]]
        ELSE wk' = [wk EXCEPT ![w] = [@ EXCEPT !.pc = "failed", !.err = p]]
    /\ UNCHANGED <<tf, disk, outFile, numCPU, crashed, last, adds, create,
                   info, alloc, pool, pipe, hasher, stream, mainVars, scanVars, fncall>>

\* A worker that takes whatever io.CopyN has copied.
ShortCopyIgnored(wn, length) == FALSE

\* if wn != fi.Length { return fmt.Errorf(...) }
ShortCopy(wn, length) == wn # length

\* A worker that returns on a short copy before it closes the file.
CloseOnSuccessOnly(open, wn, length) ==
    IF wn # length THEN open ELSE open - 1

\* f.Close() right after io.CopyN, before the test of wn: the number of
\* input files the worker holds open afterwards.
CloseAfterCopy(open, wn, length) == open - 1

\* A copy that reads all that is left of the file in one piece.
ChunkWholeFile(left, availLeft) == Min(left, availLeft)

\* One Read of io.CopyN(w, f, fi.Length): the copy buffer, the limit of the
\* LimitedReader and what the file still holds bound it.
ChunkLen(left, availLeft) == Min(Min(CopyBufSize, left), availLeft)

\* io.CopyN(w, f, fi.Length), one round of its copy loop: read at most
\* CopyBufSize bytes of what is left and hand them to the pipe, whose Write
\* holds the write lock until the reader has taken every byte.  At the end
\* of the loop f.Close() and the test wn != fi.Length.
WorkerCopy(w) ==
    /\ Running
    /\ wk[w].pc = "copy"
    /\ LET fi == files[wk[w].fi]
           p == OpenPath(tf, fi)
           pos == wk[w].pos
           left == fi.Length - pos
           got == ChunkLen(left, disk[p].avail - pos)
       IN IF left <= 0 \/ got <= 0
          THEN /\ IF ShortCopy(pos, fi.Length)
                  THEN wk' = [wk EXCEPT ![w] = [@ EXCEPT !.pc = "failed",
                                                         !.open =
                                                           CloseAfterCopy(
                                                             @, pos, fi.Length),
                                                         !.err = p]]
                  ELSE wk' = [wk EXCEPT ![w] = [@ EXCEPT !.pc = "result",
                                                         !.open =
                                                           CloseAfterCopy(
                                                             @, pos, fi.Length)]]
               /\ pipe' = pipe
          ELSE /\ pipe.owner = 0
               /\ ~pipe.closed
               /\ pipe' = [pipe EXCEPT !.owner = w,
                                       !.buf = <<p, pos, pos + got>>]
               /\ wk' = [wk EXCEPT ![w] = [@ EXCEPT !.pc = "writing"]]
    /\ UNCHANGED <<tf, disk, outFile, numCPU, crashed, last, adds, create,
                   info, alloc, pool, hasher, stream, mainVars, scanVars, fncall>>

\* results <- p meeting the collector's range results.
WorkerResult(w) ==
    /\ Running
    /\ wk[w].pc = "result"
    /\ pool.res = "ranging"
    /\ ~pool.resultsClosed
    /\ wk' = [wk EXCEPT ![w] = [@ EXCEPT !.pc = "recv"]]
    /\ pool' = [pool EXCEPT !.results = @ + 1]
    /\ UNCHANGED <<tf, disk, outFile, numCPU, crashed, last, adds, create,
                   info, alloc, pipe, hasher, stream, mainVars, scanVars, fncall>>

\* A worker(i, wg) that returns without waiting for its goroutine.
GroupWaitSkipped(w) == TRUE

\* g.Wait() in worker(i, wg): the worker's goroutine has returned.
GroupWaitDone(w) == wk[w].pc \in {"exited", "failed"}

\* createWorkerPool: wg.Add(1) and worker(i, &wg), which starts the
\* goroutine of worker i ...
PoolSpawn ==
    /\ Running
    /\ pool.pc = "spawn"
    /\ pool.i < numCPU
    /\ pool' = [pool EXCEPT !.pc = "gwait", !.i = @ + 1, !.wg = @ + 1]
    /\ wk' = [wk EXCEPT ![pool.i + 1] = [@ EXCEPT !.pc = "recv"]]
    /\ UNCHANGED <<tf, disk, outFile, numCPU, crashed, last, adds, create,
                   info, alloc, pipe, hasher, stream, mainVars, scanVars, fncall>>

\* ... and returns from g.Wait(), its error dropped by the caller.
PoolJoin ==
    /\ Running
    /\ pool.pc = "gwait"
    /\ GroupWaitDone(pool.i)
    /\ pool' = [pool EXCEPT !.pc = IF pool.i < numCPU THEN "spawn"
                                   ELSE "wgwait"]
    /\ UNCHANGED <<tf, disk, outFile, numCPU, crashed, last, adds, create,
                   info, alloc, wk, pipe, hasher, stream, mainVars, scanVars, fncall>>

\* wg.Wait() returns and close(results).
PoolClose ==
    /\ Running
    /\ pool.pc = "wgwait"
    /\ pool.wg = 0
    /\ pool' = [pool EXCEPT !.pc = "waitdone", !.resultsClosed = TRUE]
    /\ UNCHANGED <<tf, disk, outFile, numCPU, crashed, last, adds, create,
                   info, alloc, wk, pipe, hasher, stream, mainVars, scanVars, fncall>>

\* The collector's range results ends; it goes on to done <- true.
ResultLoopEnd ==
    /\ Running
    /\ pool.res = "ranging"
    /\ pool.resultsClosed
    /\ pool' = [pool EXCEPT !.res = "sending"]
    /\ UNCHANGED <<tf, disk, outFile, numCPU, crashed, last, adds, create,
                   info, alloc, wk, pipe, hasher, stream, mainVars, scanVars, fncall>>

\* <-done, writeFiles returns nil and Create's goroutine closes the pipe
\* with pw.CloseWithError(nil).
WriteFilesReturn ==
    /\ Running
    /\ pool.pc = "waitdone"
    /\ pool.res = "sending"
    /\ pool' = [pool EXCEPT !.pc = "returned", !.res = "finished"]
    /\ pipe' = [pipe EXCEPT !.closed = TRUE, !.err = "nil"]
    /\ UNCHANGED <<tf, disk, outFile, numCPU, crashed, last, adds, create,
                   info, alloc, wk, hasher, stream, mainVars, scanVars, fncall>>

(***************************************************************************)
(* generatePieces (torrent.go:425-439).                                    *)
(***************************************************************************)
\* A copy that is not limited to the piece in progress.
ReadLenUnlimited(L, written, pending) == Min(CopyBufSize, pending)

\* The size of one Read of io.CopyN(h, r, L): the copy buffer, the limit of
\* the LimitedReader and the pending write bound it.
ReadLen(L, written, pending) ==
    Min(Min(Min(CopyBufSize, L), L - written), pending)

\* A digest appended for every round of the loop, empty or not.
SumAlways(b, written, acc) == Append(b, Sha1(acc))

\* if written > 0 { b = h.Sum(b) }
SumIfWritten(b, written, acc) ==
    IF written > 0 THEN Append(b, Sha1(acc)) ELSE b

\* One Read of io.CopyN(h, r, pieceLength) that finds bytes in the pipe.  A
\* piece that reaches pieceLength is summed and the next one begun; a write
\* whose bytes are all taken returns to its worker.
HasherRead ==
    /\ Running
    /\ pipe.owner # 0
    /\ LET L == info.PieceLength
           e == pipe.buf
           n == ReadLen(L, hasher.written, ExtLen(e))
           taken == <<e[1], e[2], e[2] + n>>
           rest == <<e[1], e[2] + n, e[3]>>
           acc == AppendExt(hasher.acc, taken)
           w == pipe.owner
       IN /\ stream' = AppendExt(stream, taken)
          /\ IF hasher.written + n = L
             THEN hasher' = [written |-> 0, acc |-> <<>>,
                             b |-> SumIfWritten(hasher.b, L, acc)]
             ELSE hasher' = [hasher EXCEPT !.written = @ + n, !.acc = acc]
          /\ IF ExtLen(rest) = 0
             THEN /\ pipe' = [pipe EXCEPT !.owner = 0, !.buf = <<<<>>, 0, 0>>]
                  /\ wk' = [wk EXCEPT ![w] = [@ EXCEPT !.pc = "copy",
                                                       !.pos = e[3]]]
             ELSE /\ pipe' = [pipe EXCEPT !.buf = rest]
                  /\ wk' = wk
    /\ UNCHANGED <<tf, disk, outFile, numCPU, crashed, last, adds, create,
                   info, alloc, pool, mainVars, scanVars, fncall>>

\* The Read that finds the pipe closed: io.EOF after CloseWithError(nil),
\* the writer's error otherwise.  The piece in progress is summed if it
\* holds any byte, and generatePieces returns.
GeneratePiecesReturn ==
    /\ Running
    /\ pipe.owner = 0
    /\ pipe.closed
    /\ LET b == SumIfWritten(hasher.b, hasher.written, hasher.acc)
       IN /\ hasher' = [written |-> 0, acc |-> <<>>, b |-> b]
          /\ IF pipe.err = "nil"
             THEN /\ info' = [info EXCEPT !.Pieces = b]
                  /\ create' = [create EXCEPT !.pc = "encode"]
             ELSE /\ info' = [info EXCEPT !.Pieces = b]
                  /\ create' = [pc |-> "returned",
                                ret |-> Ret("error", "pieces", <<>>)]
    /\ UNCHANGED <<tf, disk, outFile, numCPU, crashed, last, adds, alloc, wk,
                   pool, pipe, stream, mainVars, scanVars, fncall>>

(***************************************************************************)
(* Create, last part (torrent.go:285-308): bencode the info, open the      *)
(* output file with O_WRONLY|O_CREATE and write the metainfo.              *)
(***************************************************************************)
BencodeInfo(inf) ==
    (IF Len(inf.Files) > 0 THEN << <<"files", inf.Files>> >> ELSE <<>>)
    \o (IF inf.Length # 0 THEN << <<"length", inf.Length>> >> ELSE <<>>)
    \o << <<"name", inf.Name>>,
          <<"piece length", inf.PieceLength>>,
          <<"pieces", inf.Pieces>>,
          <<"private", inf.Private>> >>

BencodeMetaInfo(m) ==
    << <<"announce-list", m.AnnounceList>>,
       <<"comment", m.Comment>>,
       <<"created by", m.CreatedBy>>,
       <<"creation date", m.CreationDate>>,
       <<"info", m.InfoBytes>> >>

CreateFinish(openOk, writeOk) ==
    /\ ~crashed
    /\ create.pc = "encode"
    /\ LET m == [tf.mi EXCEPT !.InfoBytes = BencodeInfo(info)]
           bytes == BencodeMetaInfo(m)
       IN /\ tf' = [tf EXCEPT !.mi = m]
          /\ IF ~openOk
             THEN /\ create' = [pc |-> "returned",
                                ret |-> Ret("error", "open", <<>>)]
                  /\ outFile' = outFile
             ELSE IF ~writeOk
             THEN /\ create' = [pc |-> "returned",
                                ret |-> Ret("error", "write", <<>>)]
                  /\ outFile' = [exists |-> TRUE,
                                 data |-> Overwrite(outFile.data,
                                                    SubSeq(bytes, 1, 1))]
             ELSE /\ create' = [pc |-> "returned",
                                ret |-> Ret("ok", "", <<>>)]
                  /\ outFile' = [exists |-> TRUE,
                                 data |-> Overwrite(outFile.data, bytes)]
    /\ UNCHANGED <<disk, numCPU, crashed, last, adds, info, pipelineVars,
                   mainVars, scanVars, fncall>>

(***************************************************************************)
(* Package main (torrent.go:1-124), the builder behind the command line.   *)
(* Its Create hands the files list to the library's Info.GeneratePieces,   *)
(* which reads the files one after the other in the order of info.Files    *)
(* and cuts the stream into pieces as generatePieces above does.           *)
(***************************************************************************)
\* AddFile(path, size) of package main, when filepath.Rel gives no error.
MainAddFileResult(t, path, size) ==
    [t EXCEPT !.paths = MapPut(@, Rel(t.rootPath, path), size),
              !.totalFileSizeBytes = @ + size]

MainAddFile(path, size) ==
    /\ ~crashed
    /\ mcreate.pc = "idle"
    /\ adds < MaxAdds
    /\ adds' = adds + 1
    /\ IF RelErr(mtf.rootPath, path)
       THEN /\ crashed' = TRUE
            /\ last' = [op |-> "AddFile", path |-> path, size |-> size,
                        result |-> "panic"]
            /\ mtf' = mtf
       ELSE /\ mtf' = MainAddFileResult(mtf, path, size)
            /\ last' = [op |-> "AddFile", path |-> path, size |-> size,
                        result |-> "ok"]
            /\ crashed' = crashed
    /\ UNCHANGED <<tf, disk, outFile, numCPU, create, info, pipelineVars,
                   mcreate, minfo, scanVars, fncall>>

\* The orders in which a range over the map m may visit its keys.
MapOrders(m) ==
    { o \in [1..Cardinality(DOMAIN m) -> DOMAIN m] :
        \A i, j \in DOMAIN o : i # j => o[i] # o[j] }

RECURSIVE SumSizes(_, _)
SumSizes(m, o) ==
    IF o = <<>> THEN 0 ELSE m[o[1]] + SumSizes(m, Tail(o))

\* The library's Info.writeFiles: open each file in order and copy
\* fi.Length bytes of it; the result is the stream written and the path of
\* the file that failed, if one did.
RECURSIVE LibWriteFiles(_, _, _, _, _)
LibWriteFiles(root, fs, d, i, acc) ==
    IF i > Len(fs) THEN [stream |-> acc, failed |-> FALSE, path |-> <<>>]
    ELSE LET p == JoinPath(root, fs[i].Path)
             got == IF fs[i].Length <= 0 THEN 0
                    ELSE Min(fs[i].Length, d[p].avail)
             written == AppendExt(acc, <<p, 0, got>>)
         IN IF ~OpenOk(d[p])
            THEN [stream |-> acc, failed |-> TRUE, path |-> p]
            ELSE IF got # fs[i].Length
            THEN [stream |-> written, failed |-> TRUE, path |-> p]
            ELSE LibWriteFiles(root, fs, d, i + 1, written)

\* The digests of a stream cut every L bytes.
RECURSIVE PiecesOf(_, _)
PiecesOf(s, L) ==
    IF s = <<>> THEN <<>>
    ELSE <<Sha1(TakeBytes(s, L))>> \o PiecesOf(DropBytes(s, L), L)

\* Create(torrentFsRoot, outFile, comment) of package main; order is the
\* order in which the two ranges over tf.paths visit the map.
MainCreate(order, openOk, writeOk) ==
    /\ ~crashed
    /\ mcreate.pc = "idle"
    /\ LET totalFileSizeBytes == SumSizes(mtf.paths, order)
           pieceLength == ChoosePieceLength(totalFileSizeBytes)
           fl == [i \in 1..Len(order) |->
                     [Length |-> mtf.paths[order[i]], Path |-> order[i]]]
           inf == [NoInfo EXCEPT
                     !.PieceLength = pieceLength,
                     !.Private = private,
                     !.Name = "music",
                     !.Length = IF order = <<>> THEN 0
                                ELSE mtf.paths[order[Len(order)]],
                     !.Files = fl]
           wr == LibWriteFiles(mtf.rootPath, UpvertedFiles(inf), disk, 1, <<>>)
           done == [inf EXCEPT !.Pieces = PiecesOf(wr.stream, pieceLength)]
           bytes == BencodeMetaInfo(
                       [ AnnounceList |-> << mtf.announce >>,
                         Comment |-> "comment",
                         CreatedBy |-> "milkdud",
                         CreationDate |-> 1,
                         InfoBytes |-> BencodeInfo(done) ])
       IN IF wr.failed
          THEN /\ mcreate' = [pc |-> "returned",
                              ret |-> Ret("error", "pieces", wr.path)]
               /\ minfo' = inf
               /\ outFile' = outFile
          ELSE IF ~openOk
          THEN /\ mcreate' = [pc |-> "returned",
                              ret |-> Ret("error", "open", <<>>)]
               /\ minfo' = done
               /\ outFile' = outFile
          ELSE IF ~writeOk
          THEN /\ mcreate' = [pc |-> "returned",
                              ret |-> Ret("error", "write", <<>>)]
               /\ minfo' = done
               /\ outFile' = [exists |-> TRUE,
                              data |-> Overwrite(outFile.data,
                                                 SubSeq(bytes, 1, 1))]
          ELSE /\ mcreate' = [pc |-> "returned", ret |-> Ret("ok", "", <<>>)]
               /\ minfo' = done
               /\ outFile' = [exists |-> TRUE,
                              data |-> Overwrite(outFile.data, bytes)]
    /\ UNCHANGED <<tf, disk, numCPU, crashed, last, adds, create, info,
                   pipelineVars, mtf, scanVars, fncall>>

NextMain ==
    \/ \E p \in AddPaths, s \in AddSizes : MainAddFile(p, s)
    \/ \E o \in MapOrders(mtf.paths), openOk \in BOOLEAN, writeOk \in BOOLEAN :
          MainCreate(o, openOk, writeOk)

SpecMain == Init /\ [][NextMain]_vars

(***************************************************************************)
(* The command line (src/unnamed/part_000): crawlFolder.                   *)
(***************************************************************************)
\* The files filepath.WalkDir(dir, ...) visits, in its order: those of dir,
\* then those of each subdirectory.
RECURSIVE WalkFiles(_), WalkAll(_)
WalkFiles(dir) ==
    [i \in 1..Len(music[dir]) |->
        [Path |-> Append(dir, music[dir][i].Name), File |-> music[dir][i]]]
    \o WalkAll(SubDirs(dir))

WalkAll(ds) == IF ds = <<>> THEN <<>> ELSE WalkFiles(ds[1]) \o WalkAll(Tail(ds))

\* detectAccuripInFile(p): the TOC ID found, or the error of os.ReadFile.
detectAccuripInFile(f) ==
    IF f.Toc = "unreadable" THEN [id |-> "", err |-> "read"]
    ELSE [id |-> f.Toc, err |-> "nil"]

\* A switch that lists every log and accurip file, with a TOC ID or not.
ListedAnyLog(ext, id, importArt) ==
    CASE ext = "flac" -> TRUE
      [] ext \in {"accurip", "log"} -> TRUE
      [] ext \in {"jpg", "jpeg"} -> importArt
      [] OTHER -> FALSE

\* switch FileType(ext): whether the file enters mf.Files.
Listed(ext, id, importArt) ==
    CASE ext = "flac" -> TRUE
      [] ext \in {"accurip", "log"} -> id # ""
      [] ext \in {"jpg", "jpeg"} -> importArt
      [] OTHER -> FALSE

\* The FileType recorded: jpg falls through to the jpeg case.
RecordedType(ext) == IF ext = "jpg" THEN "jpeg" ELSE ext

\* One call of the walk function on the file e: the folder afterwards, or
\* the error that ends the walk.
CrawlFile(mf, e, importArt) ==
    LET ext == Ext(e.File.Name)
        det == IF ext \in {"accurip", "log"} THEN detectAccuripInFile(e.File)
               ELSE [id |-> "", err |-> "nil"]
        tagged == IF ext \in {"accurip", "log"} /\ det.id # ""
                  THEN [mf EXCEPT !.HasAccurip = TRUE, !.TocID = det.id]
                  ELSE mf
    IN IF det.err # "nil" THEN [mf |-> mf, err |-> "error reading accurip log"]
       ELSE IF Listed(ext, det.id, importArt)
       THEN [mf |-> [tagged EXCEPT
                       !.TotalBytes = @ + e.File.Size,
                       !.FileCnt = @ + 1,
                       !.FlacCnt = IF ext = "flac" THEN @ + 1 ELSE @,
                       !.Files = Append(@, [Path |-> e.Path,
                                            Name |-> e.File.Name,
                                            Size |-> e.File.Size,
                                            FileType |-> RecordedType(ext)])],
             err |-> "nil"]
       ELSE [mf |-> tagged, err |-> "nil"]

RECURSIVE CrawlWalk(_, _, _, _)
CrawlWalk(es, i, mf, importArt) ==
    IF i > Len(es) THEN [folder |-> mf, err |-> "nil"]
    ELSE LET r == CrawlFile(mf, es[i], importArt)
         IN IF r.err # "nil"
            THEN [folder |-> NoFolder, err |-> "error walking directory"]
            ELSE CrawlWalk(es, i + 1, r.mf, importArt)

\* crawlFolder(dir) for a directory that exists; the list of the walk is
\* made once.
crawlFolder(dir) ==
    CHOOSE out \in
        { CrawlWalk(es, 1, [NoFolder EXCEPT !.Path = dir], flags.importArt) :
            es \in {WalkFiles(dir)} } : TRUE

(***************************************************************************)
(* The command line: the crawler goroutine (crawlFs, crawlBeetsDB), the    *)
(* unbuffered channel scanResults and main's result loop.                  *)
(***************************************************************************)
\* The directories filepath.WalkDir(scanPath, ...) visits, in its order.
RECURSIVE DirWalk(_)
DirWalk(ds) ==
    IF ds = <<>> THEN <<>>
    ELSE <<ds[1]>> \o DirWalk(SubDirs(ds[1])) \o DirWalk(Tail(ds))

NotScanPath(p) == p # ScanPath

\* The folders the crawler calls crawlFolder on: the albums of the beets
\* database, or every directory of the walk but scanPath itself.
CrawlList(f) ==
    IF f.beets # <<>> THEN f.beets
    ELSE SelectSeq(DirWalk(<<ScanPath>>), NotScanPath)

\* fd = append(fd, fileData{folder.Path, file.Name, file.Size}) for each
\* file of the folder.
FileDataOf(folder) ==
    [i \in 1..Len(folder.Files) |->
        [path |-> folder.Path, name |-> folder.Files[i].Name,
         size |-> folder.Files[i].Size]]

FlacCount(fs) == Cardinality({i \in 1..Len(fs) : fs[i].FileType = "flac"})

\* The body of for result := range scanResults (part_000:146-188).
ScanBody(sc, result) ==
    LET folder == result.folder
        st == [sc.stats EXCEPT !.FoldersScanned = @ + 1]
        total == st.TotalFileSizeBytes + folder.TotalBytes
    IN IF result.err # "nil"
       THEN [sc EXCEPT !.stats.Errors = @ + 1,
                       !.errors = Append(@, result.err)]
       ELSE IF folder.HasAccurip \/ flags.ignoreRipLogs
       THEN [sc EXCEPT
               !.stats = [st EXCEPT
                   !.AccuripFolderCnt = IF folder.HasAccurip THEN @ + 1 ELSE @,
                   !.FolderCnt = @ + 1,
                   !.TotalFileSizeBytes = total,
                   !.TotalFiles = @ + folder.FileCnt,
                   !.AverageAlbumSizeBytes = GoDiv(total, st.FolderCnt + 1),
                   !.TotalFlacFiles = @ + FlacCount(folder.Files)],
               !.albums = Append(@, folder),
               !.fd = @ \o FileDataOf(folder)]
       ELSE IF folder.Path # ScanPath
       THEN [sc EXCEPT !.stats = st,
                       !.skippedFolders = Append(@, folder.Path)]
       ELSE [sc EXCEPT !.stats = st]

libVars == <<tf, disk, outFile, numCPU, crashed, last, adds, create, info>>

\* The crawler calls crawlFolder on the next folder and comes to its send.
CrawlNext ==
    /\ crawl.pc = "walk"
    /\ crawl.todo # <<>>
    /\ crawl' = [pc |-> "send", todo |-> Tail(crawl.todo),
                 res |-> crawlFolder(Head(crawl.todo))]
    /\ UNCHANGED <<libVars, pipelineVars, mainVars, fncall, music, flags, scan>>

\* A send that stays pending after main has taken its value.
ReceivedNotTaken(c) == c

\* The sender after its value was taken: the send returns and the crawler
\* goes on with its walk.
Received(c) == [c EXCEPT !.pc = "walk", !.res = NoResult]

\* scanResults <- scanResult{mf, crawlErr} meeting the range of main, and
\* the loop body run on that result.
ScanResult ==
    /\ crawl.pc = "send"
    /\ scan.pc = "ranging"
    /\ scan' = ScanBody(scan, crawl.res)
    /\ crawl' = Received(crawl)
    /\ UNCHANGED <<libVars, pipelineVars, mainVars, fncall, music, flags>>

\* The crawl returns nil and the goroutine closes scanResults.
CrawlClose ==
    /\ crawl.pc = "walk"
    /\ crawl.todo = <<>>
    /\ crawl' = [crawl EXCEPT !.pc = "closed"]
    /\ UNCHANGED <<libVars, pipelineVars, mainVars, fncall, music, flags, scan>>

\* The range over the closed channel ends; main goes on to the summary.
ScanLoopEnd ==
    /\ crawl.pc = "closed"
    /\ scan.pc = "ranging"
    /\ scan' = [scan EXCEPT !.pc = "summary"]
    /\ UNCHANGED <<libVars, pipelineVars, mainVars, fncall, music, flags, crawl>>

RECURSIVE AddAll(_, _)
AddAll(t, fd) ==
    IF fd = <<>> THEN t
    ELSE CHOOSE out \in
            { AddAll(u, Tail(fd)) :
                u \in {MainAddFileResult(t, Append(fd[1].path, fd[1].name),
                                         fd[1].size)} } : TRUE

\* if *flagCreateTorrent and the total is not 0: createTorrent makes a
\* builder rooted at scanPath and adds filepath.Join(f.path, f.name) for
\* every f of fd (part_000:228-249, 529-545); the builder then goes to
\* Create, which MainCreate models.
CreateTorrent ==
    /\ scan.pc = "summary"
    /\ scan' = [scan EXCEPT !.pc = "done"]
    /\ IF flags.createTorrent /\ scan.stats.TotalFileSizeBytes # 0
       THEN mtf' = AddAll(createTorrentFile(ScanPath), scan.fd)
       ELSE mtf' = mtf
    /\ UNCHANGED <<libVars, pipelineVars, mcreate, minfo, music, flags, crawl,
                   fncall>>

\* main after flag.Parse() and the start of the crawler goroutine, for any
\* library and any flags.
InitScan ==
    /\ tf = New(Root, "comment", <<"tracker1">>, 1)
    /\ disk = GoodDisk
    /\ outFile = NoOutFile
    /\ numCPU = 1
    /\ InitRest
    /\ \E a \in FolderContents, b \in FolderContents, c \in FolderContents :
          music = (ScanPath :> << File("01.flac", 10000, "") >>) @@
                  (DirA :> a) @@ (DirAB :> b) @@ (DirC :> c)
    /\ flags \in [ignoreRipLogs : BOOLEAN, importArt : BOOLEAN,
                  createTorrent : BOOLEAN, beets : BeetsAlbums]
    /\ crawl = [pc |-> "walk", todo |-> CrawlList(flags), res |-> NoResult]
    /\ scan = [NoScan EXCEPT !.pc = "ranging"]

NextScan ==
    \/ CrawlNext
    \/ ScanResult
    \/ CrawlClose
    \/ ScanLoopEnd
    \/ CreateTorrent

SpecScan == InitScan /\ [][NextScan]_vars

\* The crawl returns an error on its way to the next folder (the stat of
\* scanPath or a directory of the walk fails, the beets database cannot be
\* read or holds no album): the goroutine prints it and os.Exit(1) ends the
\* program, main's loop with it.
CrawlFatal ==
    /\ crawl.pc = "walk"
    /\ crawl.todo # <<>>
    /\ scan.pc = "ranging"
    /\ crawl' = [crawl EXCEPT !.pc = "fatal"]
    /\ scan' = [scan EXCEPT !.pc = "exited"]
    /\ UNCHANGED <<libVars, pipelineVars, mainVars, fncall, music, flags>>

NextCrawl ==
    \/ NextScan
    \/ CrawlFatal

\* The scheduler runs the crawler and main whenever they can run; whether
\* the crawl meets a fatal error is up to the file system.
SpecCrawl == InitScan /\ [][NextCrawl]_vars /\ WF_vars(NextScan)

(***************************************************************************)
(* The command line of src/main.go: the folders are gathered first, then   *)
(* one loop updates the output and adds the files to the torrent.  Its     *)
(* Output has no Errors and no TotalFlacFiles; they stay 0 here.           *)
(***************************************************************************)
\* CrawlFolder of main.go: the switch of crawlFolder on the extension as a
\* string, with a case of its own for jpg.
CrawlFolderByExt(dir) ==
    LET r == crawlFolder(dir)
        fs == r.folder.Files
    IN [r EXCEPT !.folder.Files =
          [i \in 1..Len(fs) |-> [fs[i] EXCEPT !.FileType = Ext(fs[i].Name)]]]

CrawledOk(dir) == CrawlFolderByExt(dir).err = "nil"

\* The folders main gathers, or none when the walk ends in an error: an
\* error of CrawlFolder ends the walk of the file system, while
\* CrawlBeetsDB goes on to the next album.
GatheredFolders(f) ==
    LET ds == CrawlList(f)
    IN IF f.beets = <<>> /\ \E i \in 1..Len(ds) : ~CrawledOk(ds[i])
       THEN [err |-> "error crawling folder", dirs |-> <<>>]
       ELSE [err |-> "nil", dirs |-> SelectSeq(ds, CrawledOk)]

\* The body of for _, folder := range folders (main.go:176-217), the
\* output's part of it.
OutputBody(sc, folder) ==
    LET accuripFound == folder.TocID # ""
        st == [sc.stats EXCEPT !.FoldersScanned = @ + 1]
    IN IF accuripFound \/ flags.ignoreRipLogs
       THEN [sc EXCEPT
               !.stats = [st EXCEPT
                   !.AccuripFolderCnt = IF accuripFound THEN @ + 1 ELSE @,
                   !.FolderCnt = @ + 1,
                   !.TotalFileSizeBytes = @ + folder.TotalBytes,
                   !.TotalFiles = @ + folder.FileCnt,
                   !.AverageAlbumSizeBytes = @ + folder.TotalBytes],
               !.albums = Append(@, folder)]
       ELSE IF folder.Path # ScanPath
       THEN [sc EXCEPT !.stats = st,
                       !.skippedFolders = Append(@, folder.Path)]
       ELSE [sc EXCEPT !.stats = st]

\* The walk, or CrawlBeetsDB, then the Output and createTorrentFile; a
\* walk error is printed and os.Exit(1) ends main.
GatherFolders ==
    /\ crawl.pc = "gather"
    /\ LET g == GatheredFolders(flags)
       IN IF g.err # "nil"
          THEN /\ crawl' = [crawl EXCEPT !.pc = "fatal"]
               /\ scan' = [scan EXCEPT !.pc = "exited"]
               /\ mtf' = mtf
          ELSE /\ crawl' = [crawl EXCEPT !.pc = "gathered", !.todo = g.dirs]
               /\ scan' = [scan EXCEPT !.pc = "folders"]
               /\ mtf' = createTorrentFile(ScanPath)
    /\ UNCHANGED <<libVars, pipelineVars, mcreate, minfo, music, flags,
                   fncall>>

\* One round of the loop over folders: the output is updated and, for an
\* included folder, tf.AddFile(filepath.Join(folder.Path, file.Name),
\* file.Size) is called for each of its files.
OutputFolder ==
    /\ scan.pc = "folders"
    /\ crawl.todo # <<>>
    /\ LET folder == CrawlFolderByExt(Head(crawl.todo)).folder
       IN /\ scan' = OutputBody(scan, folder)
          /\ mtf' = IF folder.TocID # "" \/ flags.ignoreRipLogs
                    THEN AddAll(mtf, FileDataOf(folder))
                    ELSE mtf
    /\ crawl' = [crawl EXCEPT !.todo = Tail(@)]
    /\ UNCHANGED <<libVars, pipelineVars, mcreate, minfo, music, flags,
                   fncall>>

\* The loop over folders ends; main goes on to the summary.
OutputLoopEnd ==
    /\ scan.pc = "folders"
    /\ crawl.todo = <<>>
    /\ scan' = [scan EXCEPT !.pc = "summary"]
    /\ UNCHANGED <<libVars, pipelineVars, mainVars, fncall, music, flags,
                   crawl>>

InitOutput ==
    /\ tf = New(Root, "comment", <<"tracker1">>, 1)
    /\ disk = GoodDisk
    /\ outFile = NoOutFile
    /\ numCPU = 1
    /\ InitRest
    /\ \E a \in FolderContents, b \in FolderContents, c \in FolderContents :
          music = (ScanPath :> << File("01.flac", 10000, "") >>) @@
                  (DirA :> a) @@ (DirAB :> b) @@ (DirC :> c)
    /\ flags \in [ignoreRipLogs : BOOLEAN, importArt : BOOLEAN,
                  createTorrent : BOOLEAN, beets : BeetsAlbums]
    /\ crawl = [pc |-> "gather", todo |-> <<>>, res |-> NoResult]
    /\ scan = [NoScan EXCEPT !.pc = "start"]

NextOutput ==
    \/ GatherFolders
    \/ OutputFolder
    \/ OutputLoopEnd

SpecOutput == InitOutput /\ [][NextOutput]_vars

Next ==
    \/ \E a \in AddArgs : AddFile(a[1], a[2])
    \/ CreateBegin
    \/ \E w \in 1..numCPU : Dispatch(w)
    \/ AllocClose
    \/ \E w \in 1..numCPU : WorkerExit(w)
    \/ \E w \in 1..numCPU : WorkerOpen(w)
    \/ \E w \in 1..numCPU : WorkerCopy(w)
    \/ \E w \in 1..numCPU : WorkerResult(w)
    \/ PoolSpawn
    \/ PoolJoin
    \/ PoolClose
    \/ ResultLoopEnd
    \/ WriteFilesReturn
    \/ HasherRead
    \/ GeneratePiecesReturn
    \/ \E openOk \in BOOLEAN, writeOk \in BOOLEAN : CreateFinish(openOk, writeOk)

Spec == Init /\ [][Next]_vars

SpecMeta == InitMeta /\ [][Next]_vars

\* A builder over readable files, any worker count; every goroutine that
\* can run is run in the end.
InitGood ==
    /\ tf = New(Root, "comment", <<"tracker1">>, 1)
    /\ disk = GoodDisk
    /\ outFile = NoOutFile
    /\ numCPU \in 1..MaxWorkers
    /\ InitRest
    /\ InitNoScan

SpecFair == InitGood /\ [][Next]_vars /\ WF_vars(Next)

(***************************************************************************)
(* MagnetURL (torrent.go:312-315): tf.mi.Magnet(nil, nil).String().        *)
(***************************************************************************)
\* A digest taken over the whole encoded metainfo.
HashMetaInfo(m) == Sha1(BencodeMetaInfo(m))

\* mi.HashInfoBytes(): the SHA-1 of the encoded info dictionary.
HashInfoBytes(m) == Sha1(m.InfoBytes)

\* AnnounceList.DistinctValues(): every URL of every tier once, in the
\* order of its first appearance.
RECURSIVE Distinct(_, _)
Distinct(s, seen) ==
    IF s = <<>> THEN <<>>
    ELSE IF s[1] \in seen THEN Distinct(Tail(s), seen)
    ELSE <<s[1]>> \o Distinct(Tail(s), seen \cup {s[1]})

RECURSIVE Flatten(_)
Flatten(tiers) == IF tiers = <<>> THEN <<>> ELSE tiers[1] \o Flatten(Tail(tiers))

DistinctValues(al) == Distinct(Flatten(al), {})

NilInfo == [nil |-> TRUE]

\* mi.Magnet(infoHash, inf) called with a nil infoHash: the display name is
\* taken from inf, and left empty when inf is nil.
Magnet(m, inf) ==
    [ Trackers |-> DistinctValues(m.AnnounceList),
      DisplayName |-> IF inf = NilInfo THEN "" ELSE inf.Name,
      InfoHash |-> HashInfoBytes(m) ]

\* Magnet.String(): xt with the hex infohash, then the query parameters in
\* key order, dn only when the display name is not empty.
MagnetString(mg) ==
    << <<"xt", "urn:btih:", [hex |-> mg.InfoHash]>> >>
    \o (IF mg.DisplayName # "" THEN << <<"dn", mg.DisplayName>> >> ELSE <<>>)
    \o [i \in 1..Len(mg.Trackers) |-> <<"tr", mg.Trackers[i]>>]

MagnetURL(t) == MagnetString(Magnet(t.mi, NilInfo))

(***************************************************************************)
(* Functions called on their own: the choice of the piece length for any   *)
(* int64 total, and generatePieces on any reader.  A total is given as q   *)
(* blocks of minimumPieceLength bytes and r bytes more, 0 <= r <           *)
(* minimumPieceLength, so that totals of many gigabytes can be written.    *)
(***************************************************************************)
MaxTotalLog2 == 36

RECURSIVE Pow2(_)
Pow2(k) == IF k = 0 THEN 1 ELSE 2 * Pow2(k - 1)

\* Totals around every power of two from 16 MiB to 2^MaxTotalLog2 bytes,
\* and the smallest ones.
BlockCounts ==
    {0, 1} \cup UNION { {Pow2(k) - 1, Pow2(k), Pow2(k) + 1} :
                          k \in 10..(MaxTotalLog2 - 14) }

Remainders == {0, 1, minimumPieceLength - 1}

\* metainfo.ChoosePieceLength(q * minimumPieceLength + r): the division
\* totalLength / pieceLength gives q.
ChoosePieceLengthWide(q, r) == ChooseLoop(minimumPieceLength, q)

SelectPieceLength(q, r) ==
    /\ fncall.fn = "none"
    /\ fncall' = [fn |-> "ChoosePieceLength",
                  in |-> [blocks |-> q, rest |-> r],
                  out |-> ChoosePieceLengthWide(q, r)]
    /\ UNCHANGED <<libVars, pipelineVars, mainVars, scanVars>>

\* The readers generatePieces is given: the bytes of up to two files, then
\* io.EOF or another error.
ReaderFiles == { <<PathA, 0, 10000>>, <<PathB, 0, 40000>>, <<PathX, 0, 6384>> }

RECURSIVE StreamOf(_)
StreamOf(es) ==
    IF es = <<>> THEN <<>>
    ELSE AppendExt(StreamOf(SubSeq(es, 1, Len(es) - 1)), es[Len(es)])

Readers ==
    { [data |-> StreamOf(es), err |-> e] :
        es \in {<<>>} \cup {<<f>> : f \in ReaderFiles}
                 \cup {<<f, g>> : f \in ReaderFiles, g \in ReaderFiles},
        e \in {"EOF", "unexpected EOF", "read error"} }

\* generatePieces(r, pieceLength, nil): every round sums the piece it has
\* copied if it holds a byte; the loop ends at the reader's error, io.EOF
\* giving a nil error, and returns b with it.
generatePieces(r, pieceLength) ==
    [b |-> PiecesOf(r.data, pieceLength),
     err |-> IF r.err = "EOF" THEN "nil" ELSE r.err]

GeneratePieces(r, pieceLength) ==
    /\ fncall.fn = "none"
    /\ fncall' = [fn |-> "generatePieces",
                  in |-> [r |-> r, pieceLength |-> pieceLength],
                  out |-> generatePieces(r, pieceLength)]
    /\ UNCHANGED <<libVars, pipelineVars, mainVars, scanVars>>

InitFn ==
    /\ tf = New(Root, "comment", <<"tracker1">>, 1)
    /\ disk = GoodDisk
    /\ outFile = NoOutFile
    /\ numCPU = 1
    /\ InitRest
    /\ InitNoScan

NextFn ==
    \/ \E q \in BlockCounts, r \in Remainders : SelectPieceLength(q, r)
    \/ \E r \in Readers, k \in 0..2 :
          GeneratePieces(r, minimumPieceLength * Pow2(k))

SpecFn == InitFn /\ [][NextFn]_vars

(***************************************************************************)
(* Properties.                                                             *)
(***************************************************************************)
\* The virtual concatenation of the files of the manifest, in its order.
RECURSIVE ConcatFiles(_, _, _)
ConcatFiles(t, fs, acc) ==
    IF fs = <<>> THEN acc
    ELSE ConcatFiles(t, Tail(fs),
                     AppendExt(acc, <<OpenPath(t, fs[1]), 0, fs[1].Length>>))

ManifestStream == ConcatFiles(tf, files, <<>>)

NoReadFailed == \A w \in 1..numCPU : wk[w].pc # "failed"

GeneratePiecesReturned == create.pc = "encode"

CeilDiv(a, b) == (a + b - 1) \div b

\* C1: while no worker has failed, the bytes generatePieces has read are the
\* leading bytes of the concatenation of the files in info.Files order, and
\* all of it once generatePieces has returned: the files are neither
\* reordered nor interleaved, whatever the worker count and the schedule.
C1_StreamInManifestOrder ==
    NoReadFailed =>
        /\ stream = TakeBytes(ManifestStream, StreamLen(stream))
        /\ GeneratePiecesReturned => stream = ManifestStream

C1_Witness ==
    /\ GeneratePiecesReturned
    /\ numCPU >= 2
    /\ Len(info.Files) >= 2
    /\ Len(stream) >= 2
    /\ stream = ManifestStream

\* C2: when a worker has failed on a file after an earlier file was
\* consumed and nothing more can happen, Create has returned an error that
\* names the failing file's path (it has neither hung nor succeeded).
C2_FailFast ==
    \A w \in 1..numCPU :
        (wk[w].pc = "failed" /\ wk[w].fi >= 2 /\ stream # <<>>
            /\ ~ENABLED Next)
        => (create.ret.kind = "error" /\ create.ret.path = wk[w].err)

\* C3: once a worker has failed, no further file is taken from the task
\* channel and no further byte enters the stream.
C3_CancelOnFailure ==
    [][(\E w \in 1..numCPU : wk[w].pc = "failed")
          => (alloc'.idx = alloc.idx /\ stream' = stream)]_vars

\* C4: the files list Create puts in the info is sorted ascending by
\* relative path, whatever the insertion order and the iteration order.
C4_FilesSortedByPath ==
    mcreate.pc = "returned" => minfo.Files = SortFiles(minfo.Files)

\* C5: the piece hashes generatePieces returns are the hashes of the
\* manifest's concatenation cut at the piece length: a function of the
\* manifest and the piece length alone, not of numCPU or the schedule.
C5_PiecesDeterministic ==
    GeneratePiecesReturned =>
        info.Pieces = PiecesOf(ManifestStream, info.PieceLength)

C5_Witness ==
    /\ GeneratePiecesReturned
    /\ numCPU >= 2
    /\ Len(info.Files) >= 2
    /\ Len(info.Pieces) >= 3

\* C6: for a stream of S bytes and piece length L generatePieces returns
\* ceil(S / L) digests, the last over S mod L bytes, or over L bytes when L
\* divides S; none when S = 0.
C6_PieceCount ==
    GeneratePiecesReturned =>
        LET S == StreamLen(stream)
            L == info.PieceLength
            n == Len(info.Pieces)
        IN /\ n = CeilDiv(S, L)
           /\ S > 0 => StreamLen(info.Pieces[n].sha1) =
                          (IF S % L # 0 THEN S % L ELSE L)

C6_Witness ==
    /\ GeneratePiecesReturned
    /\ StreamLen(stream) > 0
    /\ StreamLen(stream) % info.PieceLength = 0
    /\ Len(info.Pieces) = StreamLen(stream) \div info.PieceLength

\* C7: piece i is the digest of bytes [i*L, min((i+1)*L, S)) of the
\* concatenation of the files: pieces run across file boundaries and
\* nothing is inserted between files.
C7_PieceBytes ==
    GeneratePiecesReturned =>
        LET S == StreamLen(ManifestStream)
            L == info.PieceLength
        IN \A i \in 1..Len(info.Pieces) :
              info.Pieces[i] =
                  Sha1(Slice(ManifestStream, (i - 1) * L, Min(i * L, S)))

C7_Witness ==
    /\ GeneratePiecesReturned
    /\ Len(info.Pieces) >= 2
    /\ Len(info.Pieces[1].sha1) = 2
    /\ info.Pieces[1].sha1[1][1] # info.Pieces[1].sha1[2][1]
    /\ StreamLen(info.Pieces[1].sha1) = info.PieceLength

\* C8: a Create that returns an error has neither created nor modified the
\* file at the output path.
C8_NoArtifactOnError ==
    [][create'.ret.kind = "error" => outFile' = outFile]_vars

\* C9: Create on a builder without any file returns an error, without
\* starting writeFiles and generatePieces.
C9_EmptyManifestError ==
    (tf.files = <<>> /\ create.pc # "idle")
    => (create.pc = "returned" /\ create.ret.kind = "error"
        /\ pool.pc = "idle")

NotInsideRoot(root, path) ==
    RelErr(root, path) \/ Rel(root, path)[1] = ".."

\* C10: an AddFile with a path outside the root or a negative size fails
\* with an error, and no such entry is in the manifest.
C10_InvalidPathError ==
    /\ (last.op = "AddFile"
          /\ (NotInsideRoot(tf.root, last.path) \/ last.size < 0))
       => last.result = "error"
    /\ \A i \in 1..Len(tf.files) :
          /\ ~NotInsideRoot(tf.root, tf.files[i].Path[1])
          /\ tf.files[i].Length >= 0

\* C11: the files list Create puts in the info holds each relative path at
\* most once and no path with a ".." segment, whatever AddFile calls came
\* before (the same path twice included).
C11_UniquePathsNoParent ==
    /\ \A i, j \in 1..Len(info.Files) :
          i # j => info.Files[i].Path # info.Files[j].Path
    /\ \A i \in 1..Len(info.Files) :
          \A k \in 1..Len(info.Files[i].Path) : info.Files[i].Path[k] # ".."

\* C12: after any sequence of AddFile calls totalFileSizeBytes is the sum
\* of the sizes in tf.paths, one size for each distinct relative path.
C12_TotalIsSumOfPaths ==
    \A o \in MapOrders(tf.paths) :
        tf.totalFileSizeBytes = SumSizes(tf.paths, o)

RECURSIVE SumLengths(_)
SumLengths(fs) == IF fs = <<>> THEN 0 ELSE fs[1].Length + SumLengths(Tail(fs))

\* C13: a metainfo that Create has encoded, or written, carries exactly
\* ceil(totalSize / pieceLength) digests, totalSize being the sum of the
\* lengths in its files list: no artifact is written with another count.
C13_PieceCountConsistent ==
    (tf.mi.InfoBytes # <<>> \/ create.ret.kind = "ok")
    => Len(info.Pieces) = CeilDiv(SumLengths(info.Files), info.PieceLength)

C13_Witness ==
    /\ create.ret.kind = "ok"
    /\ Len(info.Files) = 2
    /\ SumLengths(info.Files) % info.PieceLength # 0
    /\ Len(info.Pieces) = 4

\* C14: the infohash of a created torrent is the digest of the encoded info
\* dictionary alone: it is the same for any comment, creation time and
\* announce list the builder was made with.
C14_InfoHashIgnoresMetadata ==
    create.ret.kind = "ok" =>
        /\ Magnet(tf.mi, NilInfo).InfoHash = Sha1(BencodeInfo(info))
        /\ \A c \in Comments, a \in AnnounceLists, t \in Times :
              Magnet([New(Root, c, a, t).mi EXCEPT
                         !.InfoBytes = tf.mi.InfoBytes], NilInfo).InfoHash
              = Magnet(tf.mi, NilInfo).InfoHash

C14_Witness ==
    /\ create.ret.kind = "ok"
    /\ tf.mi.Comment = "other comment"
    /\ tf.mi.CreationDate = 2
    /\ Len(tf.mi.AnnounceList) = 2
    /\ Len(info.Pieces) >= 3

\* C15: after a Create that returned without error the content of the
\* output file is the encoded metainfo and nothing else, whatever the file
\* held before the call.
C15_OutputIsMetainfoOnly ==
    create.ret.kind = "ok" => outFile.data = BencodeMetaInfo(tf.mi)

\* C16: the magnet URI of a created torrent holds the hex infohash, a dn
\* parameter with the torrent name, and for every announce URL of every
\* tier exactly one tr parameter.
C16_MagnetComplete ==
    create.ret.kind = "ok" =>
        LET u == MagnetURL(tf)
            urls == Flatten(tf.mi.AnnounceList)
        IN /\ u[1] = <<"xt", "urn:btih:", [hex |-> Sha1(BencodeInfo(info))]>>
           /\ \E i \in 1..Len(u) : u[i] = <<"dn", info.Name>>
           /\ \A k \in 1..Len(urls) :
                 Cardinality({i \in 1..Len(u) : u[i] = <<"tr", urls[k]>>}) = 1
           /\ \A i \in 1..Len(u) :
                 u[i][1] = "tr" => \E k \in 1..Len(urls) : u[i][2] = urls[k]

\* C17: a worker never holds more than one input file open, holds none
\* once its copy has ended (with a result or with an error) or before it
\* has opened one, and none is open when Create has returned or nothing
\* more can happen.
C17_HandlesClosed ==
    /\ \A w \in 1..numCPU :
          /\ wk[w].open <= 1
          /\ wk[w].pc \in {"unborn", "recv", "open", "result", "exited",
                           "failed"} => wk[w].open = 0
    /\ (create.pc = "returned" \/ ~ENABLED Next)
          => \A w \in 1..numCPU : wk[w].open = 0

C17_Witness ==
    /\ \E w \in 1..numCPU :
          wk[w].pc = "failed" /\ wk[w].pos > 0 /\ wk[w].open = 0
    /\ ~ENABLED Next

\* C20: every info Create builds, and every info dictionary it encodes, has
\* the private flag set to true, whatever files were added and whatever
\* comment and announce list the builder was made with.
C20_AlwaysPrivate ==
    /\ create.pc \in {"hashing", "encode"} => info.Private = TRUE
    /\ tf.mi.InfoBytes # <<>> =>
          \E i \in 1..Len(tf.mi.InfoBytes) :
              tf.mi.InfoBytes[i] = <<"private", TRUE>>
    /\ create.ret.kind = "ok" =>
          \E i \in 1..Len(outFile.data) :
              /\ outFile.data[i][1] = "info"
              /\ \E k \in 1..Len(outFile.data[i][2]) :
                    outFile.data[i][2][k] = <<"private", TRUE>>

C20_Witness ==
    /\ create.ret.kind = "ok"
    /\ Len(info.Files) = 2
    /\ tf.mi.Comment = "other comment"
    /\ Len(tf.mi.AnnounceList) = 2
    /\ \E i \in 1..Len(tf.mi.InfoBytes) :
          tf.mi.InfoBytes[i] = <<"private", TRUE>>

\* The folders main has taken from scanResults so far.
Processed ==
    SubSeq(CrawlList(flags), 1,
           Len(CrawlList(flags)) - Len(crawl.todo)
             - (IF crawl.pc = "send" THEN 1 ELSE 0))

ParentDir(p) == SubSeq(p, 1, Len(p) - 1)

\* The file on disk at the path p.
FileAt(p) ==
    LET fs == music[ParentDir(p)]
    IN fs[CHOOSE i \in 1..Len(fs) : fs[i].Name = p[Len(p)]]

\* C18: a folder that was scanned without error is among the albums only
\* if a TOC ID was detected by its crawl or -r is set; any other such
\* folder, the scan path aside, is among the skipped folders and no file
\* lying in it is listed, counted or added with any album.
C18_OnlyRippedFolders ==
    \A k \in 1..Len(Processed) :
        LET d == Processed[k]
            r == crawlFolder(d)
            inc == \E i \in 1..Len(scan.albums) : scan.albums[i].Path = d
        IN r.err = "nil" =>
            /\ inc <=> (r.folder.HasAccurip \/ flags.ignoreRipLogs)
            /\ (~inc /\ d # ScanPath) =>
                  /\ \E i \in 1..Len(scan.skippedFolders) :
                        scan.skippedFolders[i] = d
                  /\ \A i \in 1..Len(scan.albums) :
                        \A j \in 1..Len(scan.albums[i].Files) :
                            ParentDir(scan.albums[i].Files[j].Path) # d

\* The folders crawlFolder has returned: the albums, and the result the
\* crawler is about to send.
FoldersCrawled ==
    {scan.albums[i] : i \in 1..Len(scan.albums)}
    \cup (IF crawl.pc = "send" /\ crawl.res.err = "nil"
          THEN {crawl.res.folder} ELSE {})

RECURSIVE SumFileSizes(_)
SumFileSizes(fs) == IF fs = <<>> THEN 0 ELSE fs[1].Size + SumFileSizes(Tail(fs))

ListedExts == {"flac", "log", "accurip", "jpg", "jpeg"}

\* C19: every file in a folder's file list has extension flac, log,
\* accurip, jpg or jpeg; a log or accurip file is listed only if it holds a
\* TOC ID, a jpg or jpeg file only under -i, a flac file always; the
\* folder's counts cover the listed files only, and only listed files are
\* added to the torrent.
C19_OnlyKnownFileTypes ==
    /\ \A mf \in FoldersCrawled :
          /\ \A k \in 1..Len(mf.Files) :
                LET ext == Ext(mf.Files[k].Name)
                IN /\ ext \in ListedExts
                   /\ ext \in {"log", "accurip"} =>
                         FileAt(mf.Files[k].Path).Toc \notin {"", "unreadable"}
                   /\ ext \in {"jpg", "jpeg"} => flags.importArt
          /\ \A e \in {WalkFiles(mf.Path)[i] : i \in 1..Len(WalkFiles(mf.Path))} :
                Ext(e.File.Name) = "flac" =>
                    \E k \in 1..Len(mf.Files) : mf.Files[k].Path = e.Path
          /\ mf.FileCnt = Len(mf.Files)
          /\ mf.TotalBytes = SumFileSizes(mf.Files)
    /\ \A i \in 1..Len(scan.fd) : Ext(scan.fd[i].name) \in ListedExts
    /\ scan.pc = "done" =>
          \A key \in DOMAIN mtf.paths : Ext(key[Len(key)]) \in ListedExts

C19_Witness ==
    /\ scan.pc = "done"
    /\ flags.importArt
    /\ mtf.paths # <<>>
    /\ \E i \in 1..Len(scan.albums) :
          /\ scan.albums[i].Path = DirC
          /\ Len(music[DirC]) = 4
          /\ Len(scan.albums[i].Files) = 3

RECURSIVE IsPow2(_)
IsPow2(n) == n = 1 \/ (n > 1 /\ n % 2 = 0 /\ IsPow2(n \div 2))

\* C21: for every total size the piece length chosen is a power of two
\* from 16 KiB to 16 MiB.
C21_PieceLengthInRange ==
    fncall.fn = "ChoosePieceLength" =>
        /\ IsPow2(fncall.out)
        /\ fncall.out >= 16 * 1024
        /\ fncall.out <= 16 * 1024 * 1024

AllStatOk == \A i \in 1..Len(tf.files) : StatOk(disk[tf.files[i].Path[1]])

AllReadable ==
    \A i \in 1..Len(files) :
        LET d == disk[OpenPath(tf, files[i])]
        IN OpenOk(d) /\ d.avail >= files[i].Length

WriteFilesStarted == pool.pc # "idle"

\* What holds once generatePieces has returned in a run without failure.
WriteFilesDone ==
    /\ alloc.idx = Len(files) + 1
    /\ alloc.closed
    /\ pool.results = Len(files)
    /\ stream = ManifestStream
    /\ \A w \in 1..numCPU : wk[w].pc = "exited"
    /\ pool.wg = 0
    /\ pool.resultsClosed
    /\ pool.res = "finished"
    /\ pool.pc = "returned"
    /\ pipe.closed /\ pipe.err = "nil"

\* C23: when every file can be opened and read, writeFiles never blocks
\* for good and ends: each file is dispatched once, every worker exits,
\* results is closed, done is received, the pipe is closed with end of
\* stream, and generatePieces and Create return.
C23_WriteFilesTerminates ==
    /\ []((WriteFilesStarted /\ AllReadable) =>
            /\ NoReadFailed
            /\ ~ENABLED Next => create.pc = "returned"
            /\ create.pc \in {"encode", "returned"} =>
                  (WriteFilesDone /\ create.ret.at # "pieces"))
    /\ (WriteFilesStarted /\ AllReadable) ~> (create.pc = "returned")

C23_Witness ==
    /\ create.ret.kind = "ok"
    /\ numCPU = 1
    /\ Len(files) = 2
    /\ WriteFilesDone

\* The bytes worker w has read from its file and the hasher has not taken:
\* the rest of the chunk it is writing to the pipe, or the chunk it may
\* hold in its copy buffer while it waits for the pipe's write lock.
Held(w) ==
    IF wk[w].pc = "writing" THEN ExtLen(pipe.buf)
    ELSE IF wk[w].pc = "copy"
         THEN LET fi == files[wk[w].fi]
                  n == ChunkLen(fi.Length - wk[w].pos,
                                disk[OpenPath(tf, fi)].avail - wk[w].pos)
              IN IF n > 0 THEN n ELSE 0
         ELSE 0

RECURSIVE HeldUpTo(_)
HeldUpTo(w) == IF w = 0 THEN 0 ELSE Held(w) + HeldUpTo(w - 1)

InFlight == HeldUpTo(numCPU)

\* The pipe holds one write at a time, of one copy buffer at most, and the
\* workers together hold one copy buffer each.
WindowBounded ==
    /\ ExtLen(pipe.buf) <= CopyBufSize
    /\ InFlight <= numCPU * CopyBufSize
    /\ \A w \in 1..numCPU : wk[w].pc = "writing" => pipe.owner = w

\* A worker that is writing a chunk moves only when the hasher has taken
\* the last byte of it, and a worker's position in its file advances at
\* no other step.
WindowStep ==
    \A w \in 1..numCPU :
        /\ (wk[w].pc = "writing" /\ wk'[w] # wk[w]) =>
              /\ pipe.owner = w /\ pipe'.owner = 0
              /\ stream' = AppendExt(stream, pipe.buf)
              /\ wk'[w].pos = pipe.buf[3]
        /\ wk'[w].pos > wk[w].pos => wk[w].pc = "writing"

\* C24: during Create the data read from the files and not yet hashed is
\* bounded by a fixed window; a worker blocks on handing a chunk to the
\* hasher and reads no further until that chunk has been taken.
C24_BoundedWindow == []WindowBounded /\ [][WindowStep]_vars

C24_Witness ==
    /\ create.pc = "hashing"
    /\ ExtLen(pipe.buf) = CopyBufSize
    /\ InFlight = CopyBufSize
    /\ \E w \in 1..numCPU :
          /\ wk[w].pc = "writing"
          /\ files[wk[w].fi].Length > CopyBufSize

\* C26: the piece length of a metainfo that Create has encoded, or written,
\* is the selector applied to the sum of the lengths in its files list, and
\* to no other total.
C26_PieceLengthOfOwnTotal ==
    ((tf.mi.InfoBytes # <<>> \/ create.ret.kind = "ok")
        /\ Len(info.Files) > 0)
    => info.PieceLength = ChoosePieceLength(SumLengths(info.Files))

\* C27: an info dictionary that Create of package main has encoded has a
\* single-file length of zero whenever its files list is not empty.
C27_NoLengthWithFiles ==
    (mcreate.pc = "returned" /\ mcreate.ret.at # "pieces"
        /\ Len(minfo.Files) > 0)
    => minfo.Length = 0

\* C28: no step of a Create of package torrent other than its successful
\* return changes what MagnetURL() returns, so that after a Create that
\* returned an error MagnetURL() is what it was before the call.
C28_FailedCreateKeepsMagnet ==
    [][((create.pc # "idle" \/ create'.pc # "idle")
          /\ create'.ret.kind # "ok")
       => MagnetURL(tf') = MagnetURL(tf)]_vars

\* C29: when a file that was added cannot be stat'ed, whatever the failure,
\* Create returns an error from building the file list and does not crash.
C29_StatFailureIsError ==
    (create.pc # "idle" /\ ~AllStatOk)
    => /\ ~crashed
       /\ create.pc = "returned"
       /\ create.ret.kind = "error"

\* C30: every file listed with an album lies in the album's own folder,
\* every file handed to the torrent is named by a path at which a file
\* exists, and no path is handed to it twice: a file of scanPath/a/b is
\* not counted for, or added under, scanPath/a as well.
C30_EachFileOnceWhereItIs ==
    /\ \A i \in 1..Len(scan.albums) :
          \A j \in 1..Len(scan.albums[i].Files) :
              ParentDir(scan.albums[i].Files[j].Path) = scan.albums[i].Path
    /\ \A i \in 1..Len(scan.fd) :
          \E k \in 1..Len(music[scan.fd[i].path]) :
              music[scan.fd[i].path][k].Name = scan.fd[i].name
    /\ \A i, j \in 1..Len(scan.fd) :
          i # j => <<scan.fd[i].path, scan.fd[i].name>>
                     # <<scan.fd[j].path, scan.fd[j].name>>

\* main's state after its loop body has run on the results of the
\* folders ds, one after the other.
RECURSIVE ScanFold(_, _)
ScanFold(sc, ds) ==
    IF ds = <<>> THEN sc
    ELSE ScanFold(ScanBody(sc, crawlFolder(ds[1])), Tail(ds))

\* What main has gathered is what the loop body makes of the results sent
\* so far and taken, each once, in the order of the sends.
ConsumedInOrder ==
    [scan EXCEPT !.pc = "ranging"]
        = ScanFold([NoScan EXCEPT !.pc = "ranging"], Processed)

\* Past the loop the crawler has returned nil and closed the channel, and
\* every result it sent was taken.
LoopEndsAfterClose ==
    scan.pc \in {"summary", "done"} =>
        /\ crawl.pc = "closed"
        /\ crawl.todo = <<>>
        /\ Processed = CrawlList(flags)

\* No state but the end of main or a fatal error is without a step.
NeverBlocked ==
    ~ENABLED NextCrawl => (scan.pc = "done" \/ crawl.pc = "fatal")

\* C31: every result the crawler sends on scanResults is consumed once and
\* in send order, main's loop ends only after the crawler has closed the
\* channel, and unless the crawl ends in a fatal error main is never
\* blocked and reaches the summary.
C31_ResultsInOrderThenSummary ==
    /\ [](ConsumedInOrder /\ LoopEndsAfterClose /\ NeverBlocked)
    /\ <>(scan.pc \in {"summary", "done"} \/ crawl.pc = "fatal")

C31_Witness ==
    /\ scan.pc = "summary"
    /\ crawl.pc = "closed"
    /\ Len(Processed) = 3
    /\ scan.stats.Errors = 1
    /\ Len(scan.albums) = 1
    /\ Len(scan.skippedFolders) = 1

\* C32: after each included folder the AverageAlbumSizeBytes reported is
\* TotalFileSizeBytes divided by FolderCnt, and it is left at 0, without a
\* division, while FolderCnt is 0.
C32_AverageIsTotalByCount ==
    IF scan.stats.FolderCnt = 0
    THEN scan.stats.AverageAlbumSizeBytes = 0
    ELSE scan.stats.AverageAlbumSizeBytes
           = GoDiv(scan.stats.TotalFileSizeBytes, scan.stats.FolderCnt)

====
